---- MODULE Spec2Model ----
(***************************************************************************)
(* Model of examples/kaspa-sender/src/main.rs: one invocation of the       *)
(* kaspa-sender binary.  The core (main, get_wallet, deposit_with_payload) *)
(* is a straight-line sequence of external wallet calls; the wallet layer  *)
(* is modelled by the outcome of each call (success or failure, chosen     *)
(* nondeterministically) and by the wallet state the calls change.         *)
(***************************************************************************)
EXTENDS Integers, Sequences, FiniteSets, TLC

\* ------------------------------------------------------------------ bounds
MaxHexLen == 4
MaxAccounts == 2

\* ------------------------------------------------------- option / result
None == [some |-> FALSE, val |-> <<>>]
Some(x) == [some |-> TRUE, val |-> x]

Ok(x) == [ok |-> TRUE, val |-> x]
Err(e) == [ok |-> FALSE, val |-> e]

\* ------------------------------------------------------------ input sets
\* --payload strings: every string of hex digits up to MaxHexLen characters
\* (odd lengths included) and one string with a character that is no hex digit
HexDigits == {"0", "f"}

RECURSIVE StringsUpTo(_)
StringsUpTo(n) ==
    IF n = 0 THEN {<<>>}
    ELSE LET shorter == StringsUpTo(n - 1)
         IN  shorter \cup {Append(s, c) : s \in {t \in shorter : Len(t) = n - 1}, c \in HexDigits}

PayloadInputs == StringsUpTo(MaxHexLen) \cup {<<"0", "g">>}
EscrowInputs == {"kaspa:qescrow", "notanaddress"}
NetworkInputs == {"mainnet", "testnet", "foo"}
SecretInputs == {"pw1", "pw2"}
AmountInputs == {0, 4000}
WalletDirInputs == {None, Some("/custom")}
TxIds == {"tx1", "tx2"}
AccountIds == 1..MaxAccounts

Args ==
    [wallet_secret : SecretInputs, wallet_dir : WalletDirInputs, amount : AmountInputs,
     payload : PayloadInputs, escrow : EscrowInputs, network : NetworkInputs,
     rpc : {"wss://node"}]

\* -------------------------------------------------------- pure functions
\* main.rs:69-73, the match on --network
NetworkIdAny(name) ==
    IF name = "testnet" THEN Ok([network_type |-> "Testnet", suffix |-> Some(10)])
    ELSE Ok([network_type |-> "Mainnet", suffix |-> None])

NetworkIdOf(name) ==
    IF name = "mainnet" THEN Ok([network_type |-> "Mainnet", suffix |-> None])
    ELSE IF name = "testnet" THEN Ok([network_type |-> "Testnet", suffix |-> Some(10)])
    ELSE Err("unknown network")

\* Address::try_from(String): prefix ':' payload, known prefix
AddressTryFrom(s) ==
    IF s = "kaspa:qescrow" THEN Ok([prefix |-> "kaspa", payload |-> "qescrow"])
    ELSE Err("address error")

\* Display for Address, used by eprintln! at main.rs:83-88
AddressDisplay(a) == <<a.prefix, ":", a.payload>>

\* hex::decode: odd length is rejected first, then every pair is converted
HexVal(c) == IF c = "0" THEN 0 ELSE IF c = "f" THEN 15 ELSE -1

RECURSIVE HexPairs(_)
HexPairs(s) ==
    IF Len(s) = 0 THEN Ok(<<>>)
    ELSE LET hi == HexVal(s[1])
             lo == HexVal(s[2])
             rest == HexPairs(SubSeq(s, 3, Len(s)))
         IN  IF hi < 0 \/ lo < 0 THEN Err("hex error")
             ELSE IF ~rest.ok THEN rest
             ELSE Ok(<<16 * hi + lo>> \o rest.val)

HexDecode(s) == IF Len(s) % 2 = 1 THEN Err("hex error") ELSE HexPairs(s)

\* main.rs:186-189, the payload argument of send
PayloadArgAlways(payload) == Some(payload)

PayloadArg(payload) == IF Len(payload) = 0 THEN None ELSE Some(payload)

\* main.rs:141-143, accounts.first().ok_or_else(..)
FirstOrDefault(accs) ==
    IF Len(accs) = 0 THEN Ok([account_id |-> 1, receive_address |-> Some("kaspa:qrecv")])
    ELSE Ok(accs[1])

LastAccount(accs) ==
    IF Len(accs) = 0 THEN Err("wallet has no accounts") ELSE Ok(accs[Len(accs)])

FirstAccount(accs) ==
    IF Len(accs) = 0 THEN Err("wallet has no accounts") ELSE Ok(accs[1])

\* main.rs:126, if !w.is_connected() { return Err(..) }
ProceedAlways(connected) == TRUE

ProceedWhenDisconnected(connected) == ~connected

ProceedWhenConnected(connected) == connected

\* main.rs:198-200, summary.final_transaction_id()
FinalTransactionId(summary) == summary.final_transaction_id

\* output streams: println! writes standard output, eprintln! the diagnostic stream
Println(io, line) == [io EXCEPT !.stdout = Append(@, line)]

EprintlnToStdout(io, line) == [io EXCEPT !.stdout = Append(@, line)]

Eprintln(io, line) == [io EXCEPT !.stderr = Append(@, line)]

Line(text, a) == [text |-> text, args |-> a]

\* main.rs:83-88, the progress line before the send
DepositLineWithSecret(ar, address, len) ==
    Line("sending deposit", <<ar.amount, AddressDisplay(address), len, ar.wallet_secret>>)

DepositLine(ar, address, len) ==
    Line("sending deposit", <<ar.amount, AddressDisplay(address), len>>)

\* main.rs:176, PaymentDestination::from(PaymentOutput::new(address, amt))
PaymentDestinationPlusOne(address, amt) == <<[address |-> address, amount |-> amt + 1]>>

PaymentDestination(address, amt) == <<[address |-> address, amount |-> amt]>>

\* the description the core attaches to an error: every eyre::eyre! text is the
\* core's own; the address and hex errors are forwarded by ? as the library
\* raised them (main.rs:80-81)
CoreDescription(msg) ==
    IF msg \in {"address error", "hex error"} THEN None ELSE Some(msg)

\* error texts the core supplies
SendErrMsgSameAsMissing == "transaction did not produce a transaction ID"

SendErrMsg == "failed to send transaction"

MissingIdMsg == "transaction did not produce a transaction ID"

\* the error taxonomy of the specification, by error text
Taxonomy(msg) ==
    CASE msg = "unknown network" -> "InputError"
      [] msg = "address error" -> "InputError"
      [] msg = "hex error" -> "InputError"
      [] msg = "failed to set storage folder" -> "ConfigurationError"
      [] msg = "failed to open wallet local store" -> "StoreError"
      [] msg = "failed to create wallet" -> "InitializationError"
      [] msg = "failed to start wallet" -> "InitializationError"
      [] msg = "failed to connect wallet" -> "ConnectionError"
      [] msg = "wallet not connected" -> "ConnectionError"
      [] msg = "failed to open wallet" -> "AuthenticationError"
      [] msg = "failed to enumerate accounts" -> "EnumerationError"
      [] msg = "wallet has no accounts" -> "EmptyWalletError"
      [] msg = "failed to select wallet account" -> "SelectionError"
      [] msg = "failed to activate wallet account" -> "ActivationError"
      [] msg = "failed to get account" -> "NoActiveAccountError"
      [] msg = "failed to send transaction" -> "SubmissionError"
      [] msg = "transaction did not produce a transaction ID" -> "MissingIdentifierError"
      [] OTHER -> "none"

\* account descriptors an enumeration can return: distinct ids, in any order;
\* the descriptors after the first carry a receive address
Descriptors == [account_id : AccountIds, receive_address : {None, Some("kaspa:qrecv")}]

AccountLists ==
    {l \in UNION {[1..n -> Descriptors] : n \in 0..MaxAccounts} :
        /\ \A i, j \in 1..Len(l) : i # j => l[i].account_id # l[j].account_id
        /\ \A i \in 2..Len(l) : l[i].receive_address.some}

\* ------------------------------------------------------------------ state
VARIABLES args, pc, io, err, wallet, calls, network_id, accounts, account_descriptor,
          account_id, escrow_address, payload, a, sent, ret, tx_id

vars == <<args, pc, io, err, wallet, calls, network_id, accounts, account_descriptor,
          account_id, escrow_address, payload, a, sent, ret, tx_id>>

Init ==
    /\ args \in Args
    /\ pc = "main"
    /\ io = [stdout |-> <<>>, stderr |-> <<>>]
    /\ err = "none"
    /\ wallet = [storage_folder |-> "~/.kaspa", store_open |-> FALSE, constructed |-> FALSE,
                 started |-> FALSE, connect_requested |-> FALSE, connected |-> FALSE,
                 unlocked |-> FALSE, unlock_secret |-> None,
                 selected |-> None, activated |-> {}]
    /\ calls = <<>>
    /\ network_id = None
    /\ accounts = <<>>
    /\ account_descriptor = None
    /\ account_id = None
    /\ a = None
    /\ escrow_address = None
    /\ payload = <<>>
    /\ sent = <<>>
    /\ ret = [is_connected |-> "unchecked", enumerate |-> "uncalled", send |-> "uncalled",
              summary |-> None, handle |-> FALSE, connected_at_handle |-> FALSE,
              connected_at_send |-> FALSE]
    /\ tx_id = None

Call(name) == calls' = Append(calls, name)

\* returning Err from main: eyre prints the error to the diagnostic stream
Fail(msg, cause) ==
    /\ err' = msg
    /\ pc' = "done"
    /\ io' = Eprintln(io, Line("Error", <<msg>> \o cause))

\* ---------------------------------------------------------------- main
\* main.rs:67-77: match on --network, Secret::from, first progress line
ParseNetwork ==
    /\ pc = "main"
    /\ LET r == NetworkIdOf(args.network)
       IN  IF r.ok
           THEN /\ network_id' = Some(r.val)
                /\ io' = Eprintln(io, Line("initializing kaspa wallet...", <<>>))
                /\ pc' = "set_storage_folder"
                /\ err' = err
           ELSE /\ Fail(r.val, <<args.network>>)
                /\ network_id' = network_id
    /\ UNCHANGED <<args, wallet, calls, accounts, account_descriptor, account_id, a, escrow_address, payload,
                   sent, ret, tx_id>>

\* ---------------------------------------------------------- get_wallet
\* the override applied whether or not --wallet-dir is given
SetStorageFolderAlways ==
    /\ pc = "set_storage_folder"
    /\ Call("set_default_storage_folder")
    /\ \E ok \in BOOLEAN :
         IF ok
         THEN /\ wallet' = [wallet EXCEPT !.storage_folder =
                               IF args.wallet_dir.some THEN args.wallet_dir.val ELSE @]
              /\ pc' = "local_store"
              /\ UNCHANGED <<err, io>>
         ELSE /\ Fail("failed to set storage folder", <<"cause">>)
              /\ wallet' = wallet
    /\ UNCHANGED <<args, network_id, accounts, account_descriptor, account_id, a, escrow_address, payload,
                   sent, ret, tx_id>>

\* main.rs:104-107
SetStorageFolder ==
    /\ pc = "set_storage_folder"
    /\ IF args.wallet_dir.some
       THEN /\ Call("set_default_storage_folder")
            /\ \E ok \in BOOLEAN :
                 IF ok
                 THEN /\ wallet' = [wallet EXCEPT !.storage_folder = args.wallet_dir.val]
                      /\ pc' = "local_store"
                      /\ UNCHANGED <<err, io>>
                 ELSE /\ Fail("failed to set storage folder", <<"cause">>)
                      /\ wallet' = wallet
       ELSE /\ pc' = "local_store"
            /\ UNCHANGED <<err, io, wallet, calls>>
    /\ UNCHANGED <<args, network_id, accounts, account_descriptor, account_id, a, escrow_address, payload,
                   sent, ret, tx_id>>

\* main.rs:109-110
LocalStore ==
    /\ pc = "local_store"
    /\ Call("local_store")
    /\ \E ok \in BOOLEAN :
         IF ok
         THEN /\ wallet' = [wallet EXCEPT !.store_open = TRUE]
              /\ pc' = "try_new"
              /\ UNCHANGED <<err, io>>
         ELSE /\ Fail("failed to open wallet local store", <<"cause">>)
              /\ wallet' = wallet
    /\ UNCHANGED <<args, network_id, accounts, account_descriptor, account_id, a, escrow_address, payload,
                   sent, ret, tx_id>>

\* main.rs:112-115
TryNew ==
    /\ pc = "try_new"
    /\ Call("try_new")
    /\ \E ok \in BOOLEAN :
         IF ok
         THEN /\ wallet' = [wallet EXCEPT !.constructed = TRUE]
              /\ pc' = "start"
              /\ UNCHANGED <<err, io>>
         ELSE /\ Fail("failed to create wallet", <<"cause">>)
              /\ wallet' = wallet
    /\ UNCHANGED <<args, network_id, accounts, account_descriptor, account_id, a, escrow_address, payload,
                   sent, ret, tx_id>>

\* start whose failure is not propagated
StartUnchecked ==
    /\ pc = "start"
    /\ Call("start")
    /\ \E ok \in BOOLEAN : wallet' = [wallet EXCEPT !.started = ok]
    /\ pc' = "connect"
    /\ UNCHANGED <<err, io>>
    /\ UNCHANGED <<args, network_id, accounts, account_descriptor, account_id, a, escrow_address, payload,
                   sent, ret, tx_id>>

\* main.rs:117-119
Start ==
    /\ pc = "start"
    /\ Call("start")
    /\ \E ok \in BOOLEAN :
         IF ok
         THEN /\ wallet' = [wallet EXCEPT !.started = TRUE]
              /\ pc' = "connect"
              /\ UNCHANGED <<err, io>>
         ELSE /\ Fail("failed to start wallet", <<"cause">>)
              /\ wallet' = wallet
    /\ UNCHANGED <<args, network_id, accounts, account_descriptor, account_id, a, escrow_address, payload,
                   sent, ret, tx_id>>

\* connect that is tried again after a failure
ConnectRetrying ==
    /\ pc = "connect"
    /\ Call("connect")
    /\ \E ok \in BOOLEAN :
         IF ok
         THEN /\ wallet' = [wallet EXCEPT !.connect_requested = TRUE, !.connected = TRUE]
              /\ pc' = "is_connected"
         ELSE /\ wallet' = wallet
              /\ pc' = pc
    /\ UNCHANGED <<err, io>>
    /\ UNCHANGED <<args, network_id, accounts, account_descriptor, account_id, a, escrow_address, payload,
                   sent, ret, tx_id>>

\* main.rs:121-124
Connect ==
    /\ pc = "connect"
    /\ Call("connect")
    /\ \E ok \in BOOLEAN :
         IF ok
         THEN /\ wallet' = [wallet EXCEPT !.connect_requested = TRUE, !.connected = TRUE]
              /\ pc' = "is_connected"
              /\ UNCHANGED <<err, io>>
         ELSE /\ Fail("failed to connect wallet", <<"cause">>)
              /\ wallet' = wallet
    /\ UNCHANGED <<args, network_id, accounts, account_descriptor, account_id, a, escrow_address, payload,
                   sent, ret, tx_id>>

\* main.rs:126-128
IsConnected ==
    /\ pc = "is_connected"
    /\ Call("is_connected")
    /\ ret' = [ret EXCEPT !.is_connected = IF wallet.connected THEN "true" ELSE "false"]
    /\ IF ProceedWhenConnected(wallet.connected)
       THEN /\ pc' = "wallet_open"
            /\ UNCHANGED <<err, io>>
       ELSE Fail("wallet not connected", <<>>)
    /\ UNCHANGED <<args, wallet, network_id, accounts, account_descriptor, account_id, a, escrow_address, payload,
                   sent, tx_id>>

\* main.rs:130-133
WalletOpen ==
    /\ pc = "wallet_open"
    /\ Call("wallet_open")
    /\ \E ok \in BOOLEAN :
         IF ok
         THEN /\ wallet' = [wallet EXCEPT !.unlocked = TRUE,
                                          !.unlock_secret = Some(args.wallet_secret)]
              /\ pc' = "accounts_enumerate"
              /\ UNCHANGED <<err, io>>
         ELSE /\ Fail("failed to open wallet", <<"cause">>)
              /\ wallet' = wallet
    /\ UNCHANGED <<args, network_id, accounts, account_descriptor, account_id, a, escrow_address, payload,
                   sent, ret, tx_id>>

\* main.rs:135-139
AccountsEnumerate ==
    /\ pc = "accounts_enumerate"
    /\ Call("accounts_enumerate")
    /\ \/ \E l \in AccountLists :
            /\ accounts' = l
            /\ ret' = [ret EXCEPT !.enumerate = "ok"]
            /\ pc' = "first"
            /\ UNCHANGED <<err, io>>
       \/ /\ Fail("failed to enumerate accounts", <<"cause">>)
          /\ ret' = [ret EXCEPT !.enumerate = "err"]
          /\ accounts' = accounts
    /\ UNCHANGED <<args, wallet, network_id, account_descriptor, account_id, a, escrow_address, payload,
                   sent, tx_id>>

\* main.rs:141-145
First ==
    /\ pc = "first"
    /\ LET r == FirstAccount(accounts)
       IN  IF r.ok
           THEN /\ account_descriptor' = Some(r.val)
                /\ account_id' = Some(r.val.account_id)
                /\ pc' = "accounts_select"
                /\ UNCHANGED <<err, io>>
           ELSE /\ Fail(r.val, <<>>)
                /\ UNCHANGED <<account_descriptor, account_id>>
    /\ UNCHANGED <<args, wallet, calls, network_id, accounts, escrow_address, payload,
                   a, sent, ret, tx_id>>

\* main.rs:147-150
AccountsSelect ==
    /\ pc = "accounts_select"
    /\ Call("accounts_select")
    /\ \E ok \in BOOLEAN :
         IF ok
         THEN /\ wallet' = [wallet EXCEPT !.selected = account_id]
              /\ pc' = "accounts_activate"
              /\ UNCHANGED <<err, io>>
         ELSE /\ Fail("failed to select wallet account", <<"cause">>)
              /\ wallet' = wallet
    /\ UNCHANGED <<args, network_id, accounts, account_descriptor, account_id, a, escrow_address, payload,
                   sent, ret, tx_id>>

\* main.rs:152-155
AccountsActivate ==
    /\ pc = "accounts_activate"
    /\ Call("accounts_activate")
    /\ \E ok \in BOOLEAN :
         IF ok
         THEN /\ wallet' = [wallet EXCEPT !.activated = @ \cup {account_id.val}]
              /\ pc' = "wallet_ready"
              /\ UNCHANGED <<err, io>>
         ELSE /\ Fail("failed to activate wallet account", <<"cause">>)
              /\ wallet' = wallet
    /\ UNCHANGED <<args, network_id, accounts, account_descriptor, account_id, a, escrow_address, payload,
                   sent, ret, tx_id>>

\* main.rs:157-162: the readiness line unwraps the descriptor's receive address,
\* which panics when it is absent; otherwise the handle is returned to main
WalletReady ==
    /\ pc = "wallet_ready"
    /\ LET d == account_descriptor.val
       IN  IF d.receive_address.some
           THEN /\ io' = Eprintln(io, Line("wallet ready", <<d.receive_address.val>>))
                /\ pc' = "parse_escrow"
                /\ ret' = [ret EXCEPT !.handle = TRUE,
                                      !.connected_at_handle = wallet.connected]
           ELSE /\ io' = Eprintln(io, Line("panic", <<"called Option::unwrap() on a None value">>))
                /\ pc' = "panic"
                /\ ret' = ret
    /\ UNCHANGED <<args, err, wallet, calls, network_id, accounts, account_descriptor, account_id, a,
                   escrow_address, payload, sent, tx_id>>

\* ------------------------------------------------------- main, continued
\* main.rs:80
ParseEscrow ==
    /\ pc = "parse_escrow"
    /\ LET r == AddressTryFrom(args.escrow)
       IN  IF r.ok
           THEN /\ escrow_address' = Some(r.val)
                /\ pc' = "decode_payload"
                /\ UNCHANGED <<err, io>>
           ELSE /\ Fail(r.val, <<>>)
                /\ escrow_address' = escrow_address
    /\ UNCHANGED <<args, wallet, calls, network_id, accounts, account_descriptor, account_id, a, payload,
                   sent, ret, tx_id>>

\* main.rs:81-88
DecodePayload ==
    /\ pc = "decode_payload"
    /\ LET r == HexDecode(args.payload)
       IN  IF r.ok
           THEN /\ payload' = r.val
                /\ io' = Eprintln(io, DepositLine(args, escrow_address.val, Len(r.val)))
                /\ pc' = "account"
                /\ err' = err
           ELSE /\ Fail(r.val, <<>>)
                /\ payload' = payload
    /\ UNCHANGED <<args, wallet, calls, network_id, accounts, account_descriptor, account_id, a, escrow_address,
                   sent, ret, tx_id>>

\* ------------------------------------------------ deposit_with_payload
\* main.rs:172-174: the wallet's currently selected account
Account ==
    /\ pc = "account"
    /\ Call("account")
    /\ \/ /\ wallet.selected.some
          /\ a' = wallet.selected
          /\ pc' = "send"
          /\ UNCHANGED <<err, io>>
       \/ /\ Fail("failed to get account", <<"cause">>)
          /\ a' = a
    /\ UNCHANGED <<args, wallet, network_id, accounts, account_descriptor, account_id,
                   escrow_address, payload, sent, ret, tx_id>>

\* main.rs:176-196
Send ==
    /\ pc = "send"
    /\ Call("send")
    /\ sent' = Append(sent, [account |-> a.val,
                             destination |-> PaymentDestination(escrow_address.val, args.amount),
                             fee_rate |-> None,
                             fees |-> 0,
                             payload |-> PayloadArg(payload),
                             wallet_secret |-> args.wallet_secret,
                             payment_secret |-> None,
                             notifier |-> None])
    /\ \/ \E id \in {None} \cup {Some(t) : t \in TxIds} :
            /\ ret' = [ret EXCEPT !.send = "ok",
                                  !.summary = Some([final_transaction_id |-> id]),
                                  !.connected_at_send = wallet.connected]
            /\ pc' = "final_transaction_id"
            /\ UNCHANGED <<err, io>>
       \/ /\ ret' = [ret EXCEPT !.send = "err", !.connected_at_send = wallet.connected]
          /\ Fail(SendErrMsg, <<"cause">>)
    /\ UNCHANGED <<args, wallet, network_id, accounts, account_descriptor, account_id,
                   escrow_address, payload, a, tx_id>>

\* main.rs:198-200
ExtractTransactionId ==
    /\ pc = "final_transaction_id"
    /\ LET id == FinalTransactionId(ret.summary.val)
       IN  IF id.some
           THEN /\ tx_id' = id
                /\ pc' = "print"
                /\ UNCHANGED <<err, io>>
           ELSE /\ Fail(MissingIdMsg, <<>>)
                /\ tx_id' = tx_id
    /\ UNCHANGED <<args, wallet, calls, network_id, accounts, account_descriptor, account_id,
                   escrow_address, payload, a, sent, ret>>

\* main.rs:92-95
PrintTransactionId ==
    /\ pc = "print"
    /\ io' = Eprintln(Println(io, Line(tx_id.val, <<>>)),
                      Line("transaction submitted successfully", <<>>))
    /\ pc' = "done"
    /\ UNCHANGED <<args, err, wallet, calls, network_id, accounts, account_descriptor,
                   account_id, escrow_address, payload, a, sent, ret, tx_id>>

\* ------------------------------------------- wallet background services
\* Started by w.start() (main.rs:117) and run by the wallet layer: once a
\* connection has been requested the connection state changes on its own.
Terminated == pc \in {"done", "panic"}

BackgroundConnection ==
    /\ ~Terminated
    /\ wallet.started
    /\ wallet.connect_requested
    /\ wallet' = [wallet EXCEPT !.connected = ~wallet.connected]
    /\ UNCHANGED <<args, pc, io, err, calls, network_id, accounts, account_descriptor,
                   account_id, escrow_address, payload, a, sent, ret, tx_id>>

Next ==
    \/ ParseNetwork
    \/ SetStorageFolder
    \/ LocalStore
    \/ TryNew
    \/ Start
    \/ Connect
    \/ IsConnected
    \/ WalletOpen
    \/ AccountsEnumerate
    \/ First
    \/ AccountsSelect
    \/ AccountsActivate
    \/ WalletReady
    \/ ParseEscrow
    \/ DecodePayload
    \/ Account
    \/ Send
    \/ ExtractTransactionId
    \/ PrintTransactionId
    \/ BackgroundConnection

Spec == Init /\ [][Next]_vars

TypeOK ==
    /\ args \in Args
    /\ Len(io.stdout) <= 1
    /\ Len(sent) <= 1

\* ------------------------------------------------------------ properties
Called(name) == \E i \in 1..Len(calls) : calls[i] = name

Count(name) == Cardinality({i \in 1..Len(calls) : calls[i] = name})

SessionCalls ==
    {"set_default_storage_folder", "local_store", "try_new", "start", "connect",
     "wallet_open", "accounts_enumerate", "accounts_select", "accounts_activate"}

InitialWallet ==
    [storage_folder |-> "~/.kaspa", store_open |-> FALSE, constructed |-> FALSE,
     started |-> FALSE, connect_requested |-> FALSE, connected |-> FALSE,
     unlocked |-> FALSE, unlock_secret |-> None, selected |-> None, activated |-> {}]

\* C1: whenever the address or hex input error has been raised, no session
\* call (set-storage-folder, open-store, construct-session, start, connect,
\* unlock, enumerate, select, activate) has been invoked.
C1_InputErrorBeforeSessionWork ==
    err \in {"address error", "hex error"} => \A c \in SessionCalls : ~Called(c)

\* C2: with a --network value other than "mainnet" and "testnet" the run
\* fails with the unknown-network input error, makes no external call, leaves
\* the wallet layer untouched and writes nothing to standard output.
C2_UnknownNetworkNoSideEffects ==
    args.network \notin {"mainnet", "testnet"} =>
        /\ calls = <<>>
        /\ wallet = InitialWallet
        /\ io.stdout = <<>>
        /\ pc \in {"main", "done"}
        /\ pc = "done" => (err = "unknown network" /\ Taxonomy(err) = "InputError")

C2_Witness == args.network = "foo" /\ pc = "done" /\ err = "unknown network"

\* C3: when enumeration succeeds with zero accounts the run ends with the
\* empty-wallet error, which is not the error of a failed enumerate call, and
\* select, activate, get-active-account and send are never invoked.
C3_EmptyWalletStops ==
    /\ (ret.enumerate = "ok" /\ accounts = <<>>) =>
          /\ \A c \in {"accounts_select", "accounts_activate", "account", "send"} : ~Called(c)
          /\ pc \in {"first", "done"}
          /\ pc = "done" => (/\ err = "wallet has no accounts"
                             /\ Taxonomy(err) = "EmptyWalletError")
    /\ ret.enumerate = "err" => (/\ err = "failed to enumerate accounts"
                                 /\ Taxonomy(err) = "EnumerationError")

C3_Witness ==
    /\ ret.enumerate = "ok" /\ accounts = <<>>
    /\ pc = "done" /\ err = "wallet has no accounts"

\* C4: when is_connected returns false after connect reported success the run
\* ends with the not-connected ConnectionError and unlock, enumerate, select,
\* activate and send are never invoked.
C4_NotConnectedStops ==
    ret.is_connected = "false" =>
        /\ pc = "done"
        /\ err = "wallet not connected"
        /\ Taxonomy(err) = "ConnectionError"
        /\ \A c \in {"wallet_open", "accounts_enumerate", "accounts_select",
                     "accounts_activate", "account", "send"} : ~Called(c)

C4_Witness ==
    /\ Called("connect") /\ wallet.connect_requested
    /\ ret.is_connected = "false" /\ pc = "done"

\* C5: the payload argument of send is absent exactly when the decoded
\* payload has length 0 and otherwise is the decoded bytes unchanged; an empty
\* payload string is not a hex error.
C5_PayloadAttachment ==
    /\ \A i \in 1..Len(sent) :
          /\ payload = HexDecode(args.payload).val
          /\ ~sent[i].payload.some <=> Len(payload) = 0
          /\ sent[i].payload.some =>
                /\ Len(sent[i].payload.val) = Len(payload)
                /\ \A k \in 1..Len(payload) : sent[i].payload.val[k] = payload[k]
    /\ args.payload = <<>> => err # "hex error"

C5_Witness ==
    /\ args.payload = <<>> /\ Len(sent) = 1 /\ ~sent[1].payload.some
    /\ pc = "done" /\ err = "none"

\* C6: the missing-identifier error is raised only after a send that returned
\* successfully with a summary without final identifier, and always then; the
\* submission error is raised exactly when the send call returned a failure.
C6_MissingIdVersusSubmission ==
    /\ err = MissingIdMsg =>
          /\ ret.send = "ok" /\ Len(sent) = 1 /\ Called("send")
          /\ ~FinalTransactionId(ret.summary.val).some
    /\ (ret.send = "ok" /\ Terminated /\ ~FinalTransactionId(ret.summary.val).some) =>
          (err = MissingIdMsg /\ Taxonomy(err) = "MissingIdentifierError")
    /\ ret.send = "err" <=> err = SendErrMsg
    /\ ret.send = "err" => Taxonomy(err) = "SubmissionError"

C6_Witness ==
    /\ pc = "done" /\ err = MissingIdMsg /\ ret.send = "ok" /\ Len(sent) = 1

\* C7: a run that ends with the missing-identifier error has written to the
\* diagnostic stream a line saying that a transaction was or may have been
\* broadcast.
BroadcastReports == {"transaction may have been broadcast", "transaction submitted successfully"}

C7_ReportsPossibleBroadcast ==
    (pc = "done" /\ err = MissingIdMsg) =>
        \E i \in 1..Len(io.stderr) : io.stderr[i].text \in BroadcastReports

\* C8: standard output holds at most one line; after a successful run it is
\* exactly the final identifier of the run's single send; after any error or
\* abort it is empty; error text is on the diagnostic stream.
C8_StandardOutput ==
    /\ Len(io.stdout) <= 1
    /\ \A i \in 1..Len(io.stdout) : io.stdout[i].text \in TxIds
    /\ io.stdout # <<>> => (pc = "done" /\ err = "none")
    /\ (pc = "done" /\ err = "none") =>
          /\ Len(sent) = 1 /\ ret.send = "ok"
          /\ FinalTransactionId(ret.summary.val).some
          /\ io.stdout = <<Line(FinalTransactionId(ret.summary.val).val, <<>>)>>
    /\ err # "none" =>
          /\ io.stdout = <<>>
          /\ io.stderr[Len(io.stderr)].text = "Error"
          /\ io.stderr[Len(io.stderr)].args[1] = err

C8_Witness == pc = "done" /\ err = "none" /\ io.stdout = <<Line("tx2", <<>>)>>

\* C9: once get_wallet has returned the handle, the selected account and the
\* only activated account is the first enumerated one, select, activate and
\* connect have each been called exactly once, and the account that signs the
\* send is that first account.
C9_FirstAccountOnly ==
    ret.handle =>
        /\ wallet.selected = Some(accounts[1].account_id)
        /\ wallet.activated = {accounts[1].account_id}
        /\ Count("accounts_select") = 1
        /\ Count("accounts_activate") = 1
        /\ Count("connect") = 1
        /\ a.some => a.val = accounts[1].account_id
        /\ \A i \in 1..Len(sent) : sent[i].account = accounts[1].account_id

C9_Witness ==
    /\ ret.handle /\ Len(accounts) = 2 /\ accounts[1].account_id = 2
    /\ Len(sent) = 1 /\ sent[1].account = 2

\* C10 as stated: the session is connected when get_wallet returns the handle
\* and when send is issued.
C10_ConnectedAtHandleAndSend ==
    /\ ret.handle => ret.connected_at_handle
    /\ ret.send # "uncalled" => ret.connected_at_send

\* C10 amended: unlock and every later step are issued only in runs where the
\* single is_connected check, made after connect reported success, saw the
\* session connected.
C10_ConnectedWhenChecked ==
    (Called("wallet_open") \/ ret.handle \/ Called("send")) =>
        (ret.is_connected = "true" /\ Count("is_connected") = 1 /\ wallet.connect_requested)

C10_Witness ==
    /\ ret.is_connected = "true" /\ ret.handle /\ ~ret.connected_at_handle
    /\ Len(sent) = 1 /\ ~ret.connected_at_send

\* C11: a run never ends in an abnormal abort, and once activate has
\* succeeded get_wallet returns the handle whatever the first descriptor holds.
C11_NoAbnormalAbort ==
    /\ pc # "panic"
    /\ (wallet.activated # {} /\ pc # "wallet_ready") => ret.handle

\* C12: every error a run ends with belongs to an entry of the taxonomy and
\* carries a description, supplied by the core, of the operation that failed.
C12_ErrorsNameTheirOperation ==
    err # "none" =>
        /\ Taxonomy(err) # "none"
        /\ CoreDescription(err).some
        /\ io.stderr[Len(io.stderr)].args[1] = CoreDescription(err).val

\* C13: the secret occurs in no line of standard output or of the diagnostic
\* stream and not in the error; it is held only by the unlock call and by the
\* send call.
\* the deposit line has numeric and address arguments, compared as printed;
\* the arguments of every other line are strings
Occurs(s, line) ==
    \/ line.text = s
    \/ IF line.text = "sending deposit"
       THEN \E k \in 1..Len(line.args) : ToString(line.args[k]) = ToString(s)
       ELSE \E k \in 1..Len(line.args) : line.args[k] = s

C13_SecretNotEmitted ==
    /\ \A i \in 1..Len(io.stdout) : ~Occurs(args.wallet_secret, io.stdout[i])
    /\ \A i \in 1..Len(io.stderr) : ~Occurs(args.wallet_secret, io.stderr[i])
    /\ err # args.wallet_secret
    /\ wallet.storage_folder # args.wallet_secret
    /\ wallet.unlock_secret.some =>
          (Called("wallet_open") /\ wallet.unlock_secret.val = args.wallet_secret)
    /\ \A i \in 1..Len(sent) : sent[i].wallet_secret = args.wallet_secret

C13_Witness ==
    /\ pc = "done" /\ err = "none" /\ args.wallet_secret = "pw2"
    /\ wallet.unlock_secret = Some("pw2")
    /\ Len(sent) = 1 /\ sent[1].wallet_secret = "pw2"
    /\ Len(io.stdout) = 1 /\ Len(io.stderr) = 4

\* C14: the external calls of a run are a prefix of one fixed order, and a
\* call is made only after the calls it depends on have succeeded.
FullOrder ==
    (IF args.wallet_dir.some THEN <<"set_default_storage_folder">> ELSE <<>>) \o
    <<"local_store", "try_new", "start", "connect", "is_connected", "wallet_open",
      "accounts_enumerate", "accounts_select", "accounts_activate", "account", "send">>

C14_FixedCallOrder ==
    /\ calls = SubSeq(FullOrder, 1, Len(calls))
    /\ LET made == {calls[i] : i \in 1..Len(calls)}
       IN  /\ "connect" \in made => wallet.started
           /\ "wallet_open" \in made =>
                 (wallet.connect_requested /\ ret.is_connected = "true")
           /\ "accounts_select" \in made => (ret.enumerate = "ok" /\ Len(accounts) >= 1)
           /\ "accounts_activate" \in made => wallet.unlocked
           /\ "send" \in made => wallet.activated # {}

C14_Witness == calls = FullOrder /\ args.wallet_dir.some /\ pc = "done" /\ err = "none"

\* C15: no external call is invoked twice, and a call that failed is the
\* last call of the run, which has ended with that call's error.
CoreCalls ==
    {"set_default_storage_folder", "local_store", "try_new", "start", "connect",
     "wallet_open", "accounts_enumerate", "accounts_select", "accounts_activate",
     "account", "send"}

\* what each call leaves behind when it succeeded
Succeeded ==
    [set_default_storage_folder |->
         (args.wallet_dir.some /\ wallet.storage_folder = args.wallet_dir.val),
     local_store |-> wallet.store_open,
     try_new |-> wallet.constructed,
     start |-> wallet.started,
     connect |-> wallet.connect_requested,
     wallet_open |-> wallet.unlocked,
     accounts_enumerate |-> ret.enumerate = "ok",
     accounts_select |-> wallet.selected.some,
     accounts_activate |-> wallet.activated # {},
     account |-> a.some,
     send |-> ret.send = "ok"]

FailureText(c) ==
    CASE c = "set_default_storage_folder" -> "failed to set storage folder"
      [] c = "local_store" -> "failed to open wallet local store"
      [] c = "try_new" -> "failed to create wallet"
      [] c = "start" -> "failed to start wallet"
      [] c = "connect" -> "failed to connect wallet"
      [] c = "wallet_open" -> "failed to open wallet"
      [] c = "accounts_enumerate" -> "failed to enumerate accounts"
      [] c = "accounts_select" -> "failed to select wallet account"
      [] c = "accounts_activate" -> "failed to activate wallet account"
      [] c = "account" -> "failed to get account"
      [] c = "send" -> "failed to send transaction"

C15_FailFastNoRetry ==
    /\ Cardinality({calls[i] : i \in 1..Len(calls)}) = Len(calls)
    /\ LET ok == Succeeded
       IN  \A i \in 1..Len(calls) :
               (calls[i] \in CoreCalls /\ ~ok[calls[i]]) =>
                   /\ pc = "done"
                   /\ err = FailureText(calls[i])
                   /\ i = Len(calls)

C15_Witness ==
    /\ Called("connect") /\ ~wallet.connect_requested
    /\ pc = "done" /\ err = "failed to connect wallet" /\ Len(calls) = 4

\* C16: at most one send is issued, only after the network name, the address
\* and the payload parsed and every session step succeeded; it carries one
\* output {parsed escrow address, --amount}, fee 0, no optional argument, no
\* payment secret and the secret used to unlock.
C16_SingleSend ==
    /\ Len(sent) <= 1
    /\ Count("send") = Len(sent)
    /\ (err \notin {"none", SendErrMsg, MissingIdMsg} \/ pc = "panic") => sent = <<>>
    /\ sent # <<>> =>
          /\ NetworkIdOf(args.network).ok
          /\ AddressTryFrom(args.escrow).ok
          /\ HexDecode(args.payload).ok
          /\ args.wallet_dir.some => wallet.storage_folder = args.wallet_dir.val
          /\ wallet.store_open /\ wallet.constructed /\ wallet.started
          /\ wallet.connect_requested /\ ret.is_connected = "true"
          /\ wallet.unlocked /\ ret.enumerate = "ok"
          /\ wallet.selected.some /\ wallet.activated # {} /\ a.some
          /\ sent[1].destination =
                <<[address |-> AddressTryFrom(args.escrow).val, amount |-> args.amount]>>
          /\ sent[1].fees = 0
          /\ sent[1].fee_rate = None
          /\ sent[1].payment_secret = None
          /\ sent[1].notifier = None
          /\ sent[1].wallet_secret = wallet.unlock_secret.val

C16_Witness ==
    /\ Len(sent) = 1 /\ args.amount = 4000
    /\ sent[1].destination[1].amount = 4000 /\ pc = "done"

\* C18: the storage-folder override is set only when --wallet-dir is given,
\* then once, first of all calls and with the given value; when setting it
\* fails the run ends with the configuration error and the store is never
\* opened; without --wallet-dir the storage folder keeps its ambient value.
C18_StorageOverride ==
    /\ Count("set_default_storage_folder") <= 1
    /\ Called("set_default_storage_folder") =>
          (args.wallet_dir.some /\ calls[1] = "set_default_storage_folder")
    /\ (args.wallet_dir.some /\ Called("local_store")) =>
          /\ calls[1] = "set_default_storage_folder"
          /\ wallet.storage_folder = args.wallet_dir.val
    /\ (args.wallet_dir.some /\ Called("set_default_storage_folder")
          /\ wallet.storage_folder # args.wallet_dir.val) =>
          /\ pc = "done" /\ err = "failed to set storage folder"
          /\ wallet.storage_folder = InitialWallet.storage_folder
    /\ err = "failed to set storage folder" =>
          /\ Taxonomy(err) = "ConfigurationError"
          /\ ~Called("local_store") /\ ~wallet.store_open
    /\ ~args.wallet_dir.some => wallet.storage_folder = InitialWallet.storage_folder

C18_Witness ==
    /\ args.wallet_dir = Some("/custom") /\ wallet.storage_folder = "/custom"
    /\ wallet.store_open /\ calls[1] = "set_default_storage_folder"

\* ------------------------------------------------------------- liveness
\* The steps of the core: every awaited call returns and every synchronous
\* step runs; the background services are under no obligation.
CoreNext ==
    \/ ParseNetwork
    \/ SetStorageFolder
    \/ LocalStore
    \/ TryNew
    \/ Start
    \/ Connect
    \/ IsConnected
    \/ WalletOpen
    \/ AccountsEnumerate
    \/ First
    \/ AccountsSelect
    \/ AccountsActivate
    \/ WalletReady
    \/ ParseEscrow
    \/ DecodePayload
    \/ Account
    \/ Send
    \/ ExtractTransactionId
    \/ PrintTransactionId

FairSpec == Init /\ [][Next]_vars /\ WF_vars(CoreNext)

\* C17: when every awaited step returns, the run eventually ends in success
\* with the identifier printed or in exactly one error.
C17_EventuallyTerminal ==
    <>(/\ pc = "done"
       /\ err = "none" => (tx_id.some /\ io.stdout = <<Line(tx_id.val, <<>>)>>))
====
